---- MODULE Spec2Model ----
(***************************************************************************)
(* Proof-of-work search (pow_mining.py, rsa_signature.py:find_pow_hash)    *)
(* and the RSA-PSS commitment signer / verifier (rsa_signature.py).        *)
(*                                                                         *)
(* Strings are sequences of one-character strings.  hashlib.sha256 is an   *)
(* arbitrary but fixed function, chosen in Init, from the byte strings the *)
(* search can hash to 64-character hex digests; only the number of leading *)
(* "0" characters of a digest is varied, the other characters are "f".     *)
(***************************************************************************)
EXTENDS Integers, Sequences, FiniteSets, TLC

\* ------------------------------------------------------------- bounds
\* Largest counter the model follows a search to (the code's loop is unbounded).
MaxNonce == 2
\* Largest number of leading zero hex characters a modelled digest has.
MaxZeros == 2
\* time.time() returns a reading in 0..MaxClock.
MaxClock == 1
\* Key pairs generate_rsa_keypair is called for, when called freely.
MaxKeys == 2
\* The random salt of a signature is one of 1..MaxSalt.
MaxSalt == 2

\* ---------------------------------------------------- program constants
\* Length of hashlib.sha256(...).hexdigest().
DigestLen == 64

\* Python's None, and every variable not yet assigned.
None == [kind |-> "None"]

\* nickname = "China-MY" in both main functions; the empty seed is the
\* degenerate input the search is still defined on.
Nicknames == { <<"C", "h", "i", "n", "a", "-", "M", "Y">>, << >> }

\* ------------------------------------------------------ pure functions
Digit(d) == CASE d = 0 -> "0" [] d = 1 -> "1" [] d = 2 -> "2" [] d = 3 -> "3"
              [] d = 4 -> "4" [] d = 5 -> "5" [] d = 6 -> "6" [] d = 7 -> "7"
              [] d = 8 -> "8" [] d = 9 -> "9"

\* str(n) of a non-negative int, as the f-string formats nonce.
RECURSIVE Decimal(_)
Decimal(n) == IF n < 10 THEN << Digit(n) >>
              ELSE Decimal(n \div 10) \o << Digit(n % 10) >>

\* c * n of Python: n copies of the character, none when n <= 0.
Repeat(c, n) == [i \in 1..n |-> c]

\* target = '0' * target_zeros
Target(target_zeros) == Repeat("0", target_zeros)

\* f"{nickname}{nonce}"
HashContent(nick, nonce) == nick \o Decimal(nonce)

\* s.startswith(prefix), and two ways of getting the test wrong: comparing
\* the first character only, and asking for no further zero after the prefix.
StartsWithFirstChar(s, prefix) ==
    \/ Len(prefix) = 0
    \/ Len(s) > 0 /\ s[1] = prefix[1]
StartsWithExactly(s, prefix) ==
    /\ Len(prefix) <= Len(s)
    /\ SubSeq(s, 1, Len(prefix)) = prefix
    /\ (Len(prefix) < Len(s) => s[Len(prefix) + 1] # "0")
StartsWith(s, prefix) ==
    /\ Len(prefix) <= Len(s)
    /\ SubSeq(s, 1, Len(prefix)) = prefix

\* A hex digest with exactly z leading zero characters.
Digest(z) == Repeat("0", z) \o Repeat("f", DigestLen - z)
Digests == { Digest(z) : z \in 0..MaxZeros }

\* The strings a search on nick hashes while its counter is within MaxNonce.
HashInputs(nick) == { HashContent(nick, n) : n \in 0..MaxNonce }

\* The difficulties called with: those some modelled digest can meet, and one
\* longer than any digest.
Difficulties == (0..MaxZeros) \cup { DigestLen + 1 }

\* What a call of time.time() can return.  It reads the system's wall clock,
\* which can be set back between two reads, so a reading is not bounded below
\* by the one before it.
TimeReadings == 0..MaxClock

VARIABLES
    nickname,   \* the seed of the run
    sha,        \* hashlib.sha256(x.encode()).hexdigest(), as a function of x
    pm,         \* the frame of pow_mining
    fp,         \* the frame of find_pow_hash
    mainPc,     \* pow_mining.py main: where it is
    first,      \* pow_mining.py main: nonce_4, content_4, hash_4, time_4
    second,     \* pow_mining.py main: nonce_5, content_5, hash_5, time_5
    rsaPc,      \* rsa_signature.py main: where it is
    keys,       \* how many key pairs generate_rsa_keypair has made
    private_key,
    public_key,
    signature,  \* the last signature sign_message returned
    signed,     \* the key and the message that signature was made with
    is_valid,           \* what the call of line 167 returned
    is_tampered_valid,  \* what the call of line 178 returned
    lastVerify  \* the last call of verify_signature and how it ended

powVars == << pm, mainPc, first, second >>
rsaVars == << rsaPc, keys, private_key, public_key, signature, signed,
              is_valid, is_tampered_valid, lastVerify >>
vars == << nickname, sha, fp, powVars, rsaVars >>

\* hashlib.sha256(content.encode()).hexdigest()
Sha256(content) == sha[content]

\* A frame not yet entered.  attempts counts the digests the call has
\* computed; the code holds no such counter, its main prints nonce + 1.
IdleFrame == [pc |-> "idle", target_zeros |-> 0, nonce |-> 0, target |-> << >>,
              start_time |-> 0, attempts |-> 0, ret |-> None]

\* ---------------------------------------------------------- pow_mining
\* Lines 15-17: nonce = 0; target = '0' * target_zeros; start_time = time.time()
\* (pow_mining_enter_clock: the counter started from the clock reading.)
pow_mining_enter_clock(target_zeros, now) ==
    [pc |-> "loop", target_zeros |-> target_zeros, nonce |-> now,
     target |-> Target(target_zeros), start_time |-> now, attempts |-> 0,
     ret |-> None]
pow_mining_enter(target_zeros, now) ==
    [pc |-> "loop", target_zeros |-> target_zeros, nonce |-> 0,
     target |-> Target(target_zeros), start_time |-> now, attempts |-> 0,
     ret |-> None]

\* Lines 19-32: one iteration of the while loop.
\* (pow_mining_iter_skip: the counter stepped by 2.)
pow_mining_iter_skip(f, now) ==
    LET hash_content == HashContent(nickname, f.nonce)
        hash_value == Sha256(hash_content)
    IN  IF StartsWith(hash_value, f.target)
        THEN [f EXCEPT !.pc = "returned", !.attempts = @ + 1,
                       !.ret = [nonce |-> f.nonce, hash_content |-> hash_content,
                                hash_value |-> hash_value,
                                elapsed_time |-> now - f.start_time]]
        ELSE [f EXCEPT !.nonce = @ + 2, !.attempts = @ + 1]
pow_mining_iter(f, now) ==
    LET hash_content == HashContent(nickname, f.nonce)
        hash_value == Sha256(hash_content)
    IN  IF StartsWith(hash_value, f.target)
        THEN [f EXCEPT !.pc = "returned", !.attempts = @ + 1,
                       !.ret = [nonce |-> f.nonce, hash_content |-> hash_content,
                                hash_value |-> hash_value,
                                elapsed_time |-> now - f.start_time]]
        ELSE [f EXCEPT !.nonce = @ + 1, !.attempts = @ + 1]

\* The loop runs on; the model follows it while the counter is within MaxNonce.
PmIter ==
    /\ pm.pc = "loop"
    /\ \E now \in TimeReadings :
          /\ pow_mining_iter(pm, now).nonce <= MaxNonce
          /\ pm' = pow_mining_iter(pm, now)
    /\ UNCHANGED << nickname, sha, fp, mainPc, first, second, rsaVars >>

\* ------------------------------------------------- pow_mining.py main
\* The stored result of a call, with the difficulty it was called with.
Stored(f) == [target_zeros |-> f.target_zeros, nonce |-> f.ret.nonce,
              hash_content |-> f.ret.hash_content,
              hash_value |-> f.ret.hash_value,
              elapsed_time |-> f.ret.elapsed_time]

\* Line 46: pow_mining(nickname, 4), for any difficulty d in place of 4.
MainCallFirst ==
    /\ mainPc = "start"
    /\ \E d \in Difficulties, now \in TimeReadings :
          pm' = pow_mining_enter(d, now)
    /\ mainPc' = "first"
    /\ UNCHANGED << nickname, sha, fp, first, second, rsaVars >>

\* Lines 46-57: the first call returned; pow_mining(nickname, 5), for any d.
MainCallSecond ==
    /\ mainPc = "first"
    /\ pm.pc = "returned"
    /\ first' = Stored(pm)
    /\ \E d \in Difficulties, now \in TimeReadings :
          pm' = pow_mining_enter(d, now)
    /\ mainPc' = "second"
    /\ UNCHANGED << nickname, sha, fp, second, rsaVars >>

\* Lines 57-69: the second call returned; both results are printed.
MainReport ==
    /\ mainPc = "second"
    /\ pm.pc = "returned"
    /\ second' = Stored(pm)
    /\ mainPc' = "report"
    /\ UNCHANGED << nickname, sha, pm, fp, first, rsaVars >>

\* Lines 70-71: the ratios (nonce_5 + 1) / (nonce_4 + 1) and time_5 / time_4
\* are printed; the second division raises when time_4 is 0.
MainCompare ==
    /\ mainPc = "report"
    /\ mainPc' = IF first.elapsed_time = 0 THEN "ZeroDivisionError" ELSE "done"
    /\ UNCHANGED << nickname, sha, pm, fp, first, second, rsaVars >>

\* ------------------------------------------------------- find_pow_hash
FpIdleFrame == [pc |-> "idle", target_zeros |-> 0, nonce |-> 0,
                target |-> << >>, attempts |-> 0, ret |-> None]

\* rsa_signature.py lines 35-36: nonce = 0; target = '0' * target_zeros
find_pow_hash_enter(target_zeros) ==
    [pc |-> "loop", target_zeros |-> target_zeros, nonce |-> 0,
     target |-> Target(target_zeros), attempts |-> 0, ret |-> None]

\* rsa_signature.py lines 38-45: one iteration of the while loop.
\* (find_pow_hash_iter_late: the counter incremented before the test, so the
\* counter returned is one past the one hashed.)
find_pow_hash_iter_late(f) ==
    LET hash_content == HashContent(nickname, f.nonce)
        hash_value == Sha256(hash_content)
    IN  IF StartsWith(hash_value, f.target)
        THEN [f EXCEPT !.pc = "returned", !.attempts = @ + 1,
                       !.ret = [nonce |-> f.nonce + 1,
                                hash_content |-> hash_content,
                                hash_value |-> hash_value]]
        ELSE [f EXCEPT !.nonce = @ + 1, !.attempts = @ + 1]
find_pow_hash_iter(f) ==
    LET hash_content == HashContent(nickname, f.nonce)
        hash_value == Sha256(hash_content)
    IN  IF StartsWith(hash_value, f.target)
        THEN [f EXCEPT !.pc = "returned", !.attempts = @ + 1,
                       !.ret = [nonce |-> f.nonce, hash_content |-> hash_content,
                                hash_value |-> hash_value]]
        ELSE [f EXCEPT !.nonce = @ + 1, !.attempts = @ + 1]

FpIter ==
    /\ fp.pc = "loop"
    /\ find_pow_hash_iter(fp).nonce <= MaxNonce
    /\ fp' = find_pow_hash_iter(fp)
    /\ UNCHANGED << nickname, sha, powVars, rsaVars >>

\* ------------------------------------------------------ str.encode('utf-8')
\* The characters of the modelled messages.  "E9" stands for the one character
\* U+00E9 and "D800" for a lone surrogate, which UTF-8 cannot encode.
CodePoint(c) ==
    CASE c = "0" -> 48 [] c = "1" -> 49 [] c = "2" -> 50 [] c = "3" -> 51
      [] c = "4" -> 52 [] c = "5" -> 53 [] c = "6" -> 54 [] c = "7" -> 55
      [] c = "8" -> 56 [] c = "9" -> 57 [] c = "-" -> 45
      [] c = "C" -> 67 [] c = "M" -> 77 [] c = "Y" -> 89
      [] c = "a" -> 97 [] c = "d" -> 100 [] c = "e" -> 101 [] c = "h" -> 104
      [] c = "i" -> 105 [] c = "m" -> 109 [] c = "n" -> 110 [] c = "p" -> 112
      [] c = "r" -> 114 [] c = "t" -> 116
      [] c = "E9" -> 233 [] c = "D800" -> 55296

IsSurrogate(cp) == cp >= 55296 /\ cp <= 57343

\* The UTF-8 bytes of one code point that is no surrogate.
Utf8Char(cp) ==
    IF cp < 128 THEN << cp >>
    ELSE IF cp < 2048 THEN << 192 + (cp \div 64), 128 + (cp % 64) >>
    ELSE << 224 + (cp \div 4096), 128 + ((cp \div 64) % 64), 128 + (cp % 64) >>

RECURSIVE Utf8Bytes(_)
Utf8Bytes(message) ==
    IF message = << >> THEN << >>
    ELSE Utf8Char(CodePoint(Head(message))) \o Utf8Bytes(Tail(message))

\* message.encode('utf-8'): the bytes, or UnicodeEncodeError raised.
Utf8Encode(message) ==
    IF \E i \in 1..Len(message) : IsSurrogate(CodePoint(message[i]))
    THEN [raised |-> "UnicodeEncodeError"]
    ELSE [bytes |-> Utf8Bytes(message)]
Encodes(enc) == "bytes" \in DOMAIN enc

\* ------------------------------------ the cryptography library, symbolically
\* RSA-PSS over SHA-256 as an ideal signature scheme: a signature is the term
\* of what it was made from, the digest of the data is the term of the data
\* (no two byte strings share a digest), and only the private key of a pair
\* makes a signature its public key accepts.

\* padding.PSS(mgf=padding.MGF1(hashes.SHA256()), salt_length=padding.PSS.MAX_LENGTH)
PSS_MAX == [mgf |-> "MGF1-SHA256", salt_length |-> "MAX_LENGTH"]
PSS_DIGEST == [mgf |-> "MGF1-SHA256", salt_length |-> "DIGEST_LENGTH"]
SHA256 == "SHA256"

\* rsa.generate_private_key(public_exponent=65537, key_size=2048): a fresh pair.
PrivateKey(k) == [kind |-> "private", id |-> k]
\* private_key.public_key()
PublicKeyOf(priv) == [kind |-> "public", id |-> priv.id]

\* private_key.sign(data, padding, algorithm) with the random salt drawn.
LibSign(priv, data, pad, alg, salt) ==
    [kind |-> "signature", key |-> priv.id, digest |-> << alg, data >>,
     pad |-> pad, salt |-> salt]

\* Byte strings that are the signature of nothing (a flipped or missing byte),
\* and a signature argument that is no byte string at all.
Corrupted == [kind |-> "corrupted"]
NotBytes == [kind |-> "not bytes"]

\* public_key.verify(signature, data, padding, algorithm): returns ("ok") or
\* raises the exception named.
LibVerify(pub, sig, data, pad, alg) ==
    IF sig.kind = "not bytes" THEN "TypeError"
    ELSE IF /\ sig.kind = "signature"
            /\ sig.key = pub.id
            /\ sig.digest = << alg, data >>
            /\ sig.pad = pad
         THEN "ok"
         ELSE "InvalidSignature"

\* The classes `except Exception` catches among what the calls above raise.
ExceptionClasses == { "InvalidSignature", "TypeError", "UnicodeEncodeError" }

Return(v) == [kind |-> "return", value |-> v]
Raise(e) == [kind |-> "raise", exc |-> e]

\* ------------------------------------------------ generate_rsa_keypair
generate_rsa_keypair(k) ==
    LET priv == PrivateKey(k) IN << priv, PublicKeyOf(priv) >>

\* -------------------------------------------------------- sign_message
\* rsa_signature.py lines 58-66; nothing is caught here.
sign_message(priv, message, salt) ==
    LET data == Utf8Encode(message)
    IN  IF ~Encodes(data) THEN Raise(data.raised)
        ELSE Return(LibSign(priv, data.bytes, PSS_MAX, SHA256, salt))

\* ---------------------------------------------------- verify_signature
\* rsa_signature.py lines 80-92: try: verify(...); return True
\* except Exception: return False
\* (verify_signature_digest_salt: verifying with salt_length=DIGEST_LENGTH;
\* verify_signature_swallow: the exception swallowed and True returned;
\* verify_signature_narrow: only InvalidSignature caught.)
verify_signature_digest_salt(pub, message, sig) ==
    LET data == Utf8Encode(message)
        out == IF ~Encodes(data) THEN data.raised
               ELSE LibVerify(pub, sig, data.bytes, PSS_DIGEST, SHA256)
    IN  IF out = "ok" THEN Return(TRUE)
        ELSE IF out \in ExceptionClasses THEN Return(FALSE)
        ELSE Raise(out)
verify_signature_swallow(pub, message, sig) ==
    LET data == Utf8Encode(message)
        out == IF ~Encodes(data) THEN data.raised
               ELSE LibVerify(pub, sig, data.bytes, PSS_MAX, SHA256)
    IN  IF out = "ok" THEN Return(TRUE)
        ELSE IF out \in ExceptionClasses THEN Return(TRUE)
        ELSE Raise(out)
verify_signature_narrow(pub, message, sig) ==
    LET data == Utf8Encode(message)
        out == IF ~Encodes(data) THEN data.raised
               ELSE LibVerify(pub, sig, data.bytes, PSS_MAX, SHA256)
    IN  IF out = "ok" THEN Return(TRUE)
        ELSE IF out = "InvalidSignature" THEN Return(FALSE)
        ELSE Raise(out)
verify_signature(pub, message, sig) ==
    LET data == Utf8Encode(message)
        out == IF ~Encodes(data) THEN data.raised
               ELSE LibVerify(pub, sig, data.bytes, PSS_MAX, SHA256)
    IN  IF out = "ok" THEN Return(TRUE)
        ELSE IF out \in ExceptionClasses THEN Return(FALSE)
        ELSE Raise(out)

\* What the library call inside verify_signature ends with.
VerifyOutcome(pub, message, sig) ==
    LET data == Utf8Encode(message)
    IN  IF ~Encodes(data) THEN data.raised
        ELSE LibVerify(pub, sig, data.bytes, PSS_MAX, SHA256)

\* ------------------------------------------- the functions, called freely
\* tampered_content = hash_content + "tampered"
Tampered(content) == content \o << "t", "a", "m", "p", "e", "r", "e", "d" >>

\* The messages signed and verified: a string the search returns, the same
\* with "tampered" appended, a short one, the short one with a two-byte
\* character appended, and one that UTF-8 cannot encode.
Messages ==
    { HashContent(nickname, 0), Tampered(HashContent(nickname, 0)),
      << "a" >>, << "a", "E9" >>, << "a", "D800" >> }

GenerateKeypair ==
    /\ keys < MaxKeys
    /\ keys' = keys + 1
    /\ private_key' = generate_rsa_keypair(keys + 1)[1]
    /\ public_key' = generate_rsa_keypair(keys + 1)[2]
    /\ UNCHANGED << nickname, sha, fp, powVars, rsaPc, signature, signed,
                    is_valid, is_tampered_valid, lastVerify >>

\* sign_message(private key of pair k, m); a call that raises assigns nothing.
SignMessage ==
    /\ \E k \in 1..keys, m \in Messages, salt \in 1..MaxSalt :
          LET r == sign_message(PrivateKey(k), m, salt)
          IN  /\ r.kind = "return"
              /\ signature' = r.value
              /\ signed' = [key |-> k, message |-> m]
    /\ lastVerify' = None
    /\ UNCHANGED << nickname, sha, fp, powVars, rsaPc, keys, private_key,
                    public_key, is_valid, is_tampered_valid >>

\* verify_signature(public key of pair k, m, sig), sig the signature held or
\* something that is no signature.
VerifySignature ==
    /\ \E k \in 1..keys, m \in Messages,
          sig \in (IF signature = None THEN {} ELSE { signature })
                  \cup { Corrupted, NotBytes } :
          LET pub == PublicKeyOf(PrivateKey(k))
          IN  lastVerify' = [public_key |-> pub, message |-> m,
                             signature |-> sig,
                             outcome |-> VerifyOutcome(pub, m, sig),
                             result |-> verify_signature(pub, m, sig)]
    /\ UNCHANGED << nickname, sha, fp, powVars, rsaPc, keys, private_key,
                    public_key, signature, signed, is_valid,
                    is_tampered_valid >>

\* --------------------------------------------- rsa_signature.py main
\* Line 132: private_key, public_key = generate_rsa_keypair()
RsaGenerate ==
    /\ rsaPc = "start"
    /\ keys' = keys + 1
    /\ private_key' = generate_rsa_keypair(keys + 1)[1]
    /\ public_key' = generate_rsa_keypair(keys + 1)[2]
    /\ rsaPc' = "keys"
    /\ UNCHANGED << nickname, sha, fp, powVars, signature, signed, is_valid,
                    is_tampered_valid, lastVerify >>

\* The two programs are compared on one difficulty: the later call takes the
\* difficulty of the earlier one.
SameDifficulty(d) ==
    /\ pm.pc # "idle" => d = pm.target_zeros
    /\ fp.pc # "idle" => d = fp.target_zeros

\* Line 146: find_pow_hash(nickname, 4), for any difficulty d in place of 4.
RsaCallPow ==
    /\ rsaPc = "keys"
    /\ \E d \in Difficulties :
          /\ SameDifficulty(d)
          /\ fp' = find_pow_hash_enter(d)
    /\ rsaPc' = "pow"
    /\ UNCHANGED << nickname, sha, powVars, keys, private_key, public_key,
                    signature, signed, is_valid, is_tampered_valid,
                    lastVerify >>

\* Line 158: signature = sign_message(private_key, hash_content)
RsaSign ==
    /\ rsaPc = "pow"
    /\ fp.pc = "returned"
    /\ \E salt \in 1..MaxSalt :
          LET r == sign_message(private_key, fp.ret.hash_content, salt)
          IN  /\ r.kind = "return"
              /\ signature' = r.value
              /\ signed' = [key |-> private_key.id,
                            message |-> fp.ret.hash_content]
    /\ rsaPc' = "signed"
    /\ UNCHANGED << nickname, sha, fp, powVars, keys, private_key,
                    public_key, is_valid, is_tampered_valid, lastVerify >>

\* Line 167: is_valid = verify_signature(public_key, hash_content, signature)
RsaVerify ==
    /\ rsaPc = "signed"
    /\ LET r == verify_signature(public_key, fp.ret.hash_content, signature)
       IN  /\ r.kind = "return"
           /\ is_valid' = r
    /\ rsaPc' = "verified"
    /\ UNCHANGED << nickname, sha, fp, powVars, keys, private_key,
                    public_key, signature, signed, is_tampered_valid,
                    lastVerify >>

\* Lines 177-178: tampered_content = hash_content + "tampered";
\* is_tampered_valid = verify_signature(public_key, tampered_content, signature)
RsaTamper ==
    /\ rsaPc = "verified"
    /\ LET tampered_content == Tampered(fp.ret.hash_content)
           r == verify_signature(public_key, tampered_content, signature)
       IN  /\ r.kind = "return"
           /\ is_tampered_valid' = r
    /\ rsaPc' = "done"
    /\ UNCHANGED << nickname, sha, fp, powVars, keys, private_key,
                    public_key, signature, signed, is_valid, lastVerify >>

\* pow_mining.py run beside it: pow_mining(nickname, d).
PowCall ==
    /\ pm.pc = "idle"
    /\ \E d \in Difficulties, now \in TimeReadings :
          /\ SameDifficulty(d)
          /\ pm' = pow_mining_enter(d, now)
    /\ UNCHANGED << nickname, sha, fp, mainPc, first, second, rsaVars >>

\* ------------------------------------------------------- specification
Init ==
    /\ nickname \in Nicknames
    /\ sha \in [HashInputs(nickname) -> Digests]
    /\ pm = IdleFrame
    /\ fp = FpIdleFrame
    /\ mainPc = "start"
    /\ first = None
    /\ second = None
    /\ rsaPc = "start"
    /\ keys = 0
    /\ private_key = None
    /\ public_key = None
    /\ signature = None
    /\ signed = None
    /\ is_valid = None
    /\ is_tampered_valid = None
    /\ lastVerify = None

Next ==
    \/ MainCallFirst
    \/ PmIter
    \/ MainCallSecond
    \/ MainReport
    \/ MainCompare

Spec == Init /\ [][Next]_vars

\* The two programs side by side on one seed, one hash function and one
\* difficulty.
NextDemo ==
    \/ RsaGenerate
    \/ RsaCallPow
    \/ FpIter
    \/ RsaSign
    \/ RsaVerify
    \/ RsaTamper
    \/ PowCall
    \/ PmIter

SpecDemo == Init /\ [][NextDemo]_vars

\* The two searches alone, one after the other in either order.
SearchPm ==
    /\ fp.pc # "loop"
    /\ PowCall

SearchFp ==
    /\ fp.pc = "idle"
    /\ pm.pc # "loop"
    /\ \E d \in Difficulties :
          /\ SameDifficulty(d)
          /\ fp' = find_pow_hash_enter(d)
    /\ UNCHANGED << nickname, sha, powVars, rsaVars >>

NextSearch ==
    \/ SearchPm
    \/ PmIter
    \/ SearchFp
    \/ FpIter

SpecSearch == Init /\ [][NextSearch]_vars

\* A single-threaded program keeps running: a loop iteration that can be
\* taken is taken.
FairSearch == SpecSearch /\ WF_vars(PmIter) /\ WF_vars(FpIter)

\* generate_rsa_keypair, sign_message and verify_signature called with any
\* arguments, in any order.
NextSig ==
    \/ GenerateKeypair
    \/ SignMessage
    \/ VerifySignature

\* The search does not run here: one seed and one hash function are enough.
InitSig ==
    /\ Init
    /\ nickname = << "C", "h", "i", "n", "a", "-", "M", "Y" >>
    /\ \A x \in DOMAIN sha : sha[x] = Digest(0)

SpecSig == InitSig /\ [][NextSig]_vars

\* ------------------------------------------------------------ properties
\* What the properties say of strings, stated without the model's operators.
DigitValue(c) ==
    CASE c = "0" -> 0 [] c = "1" -> 1 [] c = "2" -> 2 [] c = "3" -> 3
      [] c = "4" -> 4 [] c = "5" -> 5 [] c = "6" -> 6 [] c = "7" -> 7
      [] c = "8" -> 8 [] c = "9" -> 9 [] OTHER -> -1

RECURSIVE NumberRead(_)
NumberRead(text) ==
    IF Len(text) = 0 THEN 0
    ELSE 10 * NumberRead(SubSeq(text, 1, Len(text) - 1))
         + DigitValue(text[Len(text)])

\* text is the decimal numeral of n: digits only, no leading zero, value n.
IsDecimalOf(text, n) ==
    /\ Len(text) >= 1
    /\ \A i \in 1..Len(text) : DigitValue(text[i]) >= 0
    /\ (Len(text) > 1 => text[1] # "0")
    /\ NumberRead(text) = n

\* content is seed followed by the decimal numeral of counter.
IsCommitted(content, seed, counter) ==
    /\ Len(content) > Len(seed)
    /\ SubSeq(content, 1, Len(seed)) = seed
    /\ IsDecimalOf(SubSeq(content, Len(seed) + 1, Len(content)), counter)

\* digest starts with d zero hex characters.
LeadingZeros(digest, d) ==
    /\ d <= Len(digest)
    /\ \A i \in 1..d : digest[i] = "0"

\* Counter c meets difficulty d under the run's seed and hash function.
Meets(c, d) ==
    \E x \in DOMAIN sha : IsCommitted(x, nickname, c) /\ LeadingZeros(sha[x], d)

Solvable(d) == \E c \in 0..MaxNonce : Meets(c, d)
MinCounter(d) == CHOOSE c \in 0..MaxNonce :
                    Meets(c, d) /\ \A b \in 0..(c - 1) : ~Meets(b, d)

ResultOk(f) ==
    f.pc = "returned" =>
        /\ IsCommitted(f.ret.hash_content, nickname, f.ret.nonce)
        /\ f.ret.hash_content \in DOMAIN sha
        /\ f.ret.hash_value = sha[f.ret.hash_content]
        /\ LeadingZeros(f.ret.hash_value, f.target_zeros)

\* C1: whenever pow_mining or find_pow_hash has returned, the returned
\* content is the seed followed by the decimal numeral of the returned
\* counter, the returned digest is the hash of that content, and the digest
\* starts with as many zero characters as the difficulty it was called with.
C1_ResultMeetsDifficulty == ResultOk(pm) /\ ResultOk(fp)

C1_Witness ==
    /\ pm.pc = "returned" /\ pm.target_zeros = MaxZeros /\ pm.ret.nonce > 0
    /\ fp.pc = "returned"

\* C2: the counters are tried upwards from 0 one by one: while pow_mining
\* runs every counter below the current one failed the predicate, and the
\* counter it returns is the current one, so no smaller counter meets the
\* difficulty.
C2_Minimal ==
    /\ pm.pc \in {"loop", "returned"} =>
          \A c \in 0..(pm.nonce - 1) : ~Meets(c, pm.target_zeros)
    /\ pm.pc = "returned" =>
          /\ pm.ret.nonce = pm.nonce
          /\ Meets(pm.nonce, pm.target_zeros)

C2_Witness ==
    pm.pc = "returned" /\ pm.ret.nonce = MaxNonce /\ pm.target_zeros >= 1

\* Both calls of pow_mining.py main have returned.
Reported == mainPc \in {"report", "done", "ZeroDivisionError"}

\* C3: two calls of pow_mining with the same seed and the same difficulty
\* return the same counter, content and digest, whatever the clock read
\* during either call.
C3_Deterministic ==
    (Reported /\ first.target_zeros = second.target_zeros) =>
        /\ first.nonce = second.nonce
        /\ first.hash_content = second.hash_content
        /\ first.hash_value = second.hash_value

C3_Witness ==
    /\ Reported
    /\ first.target_zeros = second.target_zeros
    /\ first.nonce > 0
    /\ first.elapsed_time # second.elapsed_time

\* C7: the elapsed time pow_mining returns is never negative, whatever the
\* wall clock does during the search.
C7_ElapsedNonNegative ==
    pm.pc = "returned" => pm.ret.elapsed_time >= 0

Monotone(a, b) ==
    a.target_zeros <= b.target_zeros =>
        /\ a.nonce <= b.nonce
        /\ LeadingZeros(b.hash_value, a.target_zeros)

\* C10: for two returned searches on one seed, the one with the smaller or
\* equal difficulty returned the smaller or equal counter, and the digest of
\* the harder one also meets the easier difficulty, so the printed ratio
\* (nonce_5 + 1) / (nonce_4 + 1) is at least 1.
C10_MonotoneInDifficulty ==
    Reported => Monotone(first, second) /\ Monotone(second, first)

C10_Witness ==
    /\ Reported
    /\ first.target_zeros >= 1
    /\ first.target_zeros < second.target_zeros
    /\ first.nonce < second.nonce

ReturnsAtMin(f) ==
    f.pc = "returned" =>
        /\ Solvable(f.target_zeros)
        /\ f.ret.nonce = MinCounter(f.target_zeros)
        /\ f.attempts = MinCounter(f.target_zeros) + 1
        /\ (f.target_zeros = 0 => f.ret.nonce = 0 /\ f.attempts = 1)

\* C8: a search for which some counter meets the difficulty returns, after
\* exactly (smallest such counter + 1) digests, so difficulty 0 returns
\* counter 0 after one digest; a search for which no counter meets the
\* difficulty never returns.
C8_Termination ==
    /\ [](ReturnsAtMin(pm) /\ ReturnsAtMin(fp))
    /\ (pm.pc = "loop" /\ Solvable(pm.target_zeros)) ~> (pm.pc = "returned")
    /\ (fp.pc = "loop" /\ Solvable(fp.target_zeros)) ~> (fp.pc = "returned")

C8_Witness ==
    /\ pm.pc = "returned" /\ pm.attempts = MaxNonce + 1
    /\ fp.pc = "returned" /\ fp.attempts = MaxNonce + 1

\* A search no counter can satisfy is reached too, and is still looping.
C8_WitnessNever ==
    /\ pm.pc = "loop" /\ ~Solvable(pm.target_zeros) /\ pm.nonce = MaxNonce
    /\ pm.target_zeros <= DigestLen

\* C9: called with the same seed and difficulty, find_pow_hash and
\* pow_mining are at the same counter after the same number of digests and
\* return the same counter, content and digest; the message the signature
\* program signs is the content pow_mining returns.
C9_SameSearch ==
    /\ (pm.pc # "idle" /\ fp.pc # "idle" /\ pm.attempts = fp.attempts) =>
          /\ pm.nonce = fp.nonce
          /\ pm.pc = fp.pc
          /\ pm.target = fp.target
    /\ (pm.pc = "returned" /\ fp.pc = "returned") =>
          /\ pm.ret.nonce = fp.ret.nonce
          /\ pm.ret.hash_content = fp.ret.hash_content
          /\ pm.ret.hash_value = fp.ret.hash_value
    /\ (pm.pc = "returned" /\ signature # None) =>
          /\ signed.message = pm.ret.hash_content
          /\ signature.digest[2] = Utf8Encode(pm.ret.hash_content).bytes

C9_Witness ==
    /\ pm.pc = "returned" /\ pm.ret.nonce > 0 /\ pm.target_zeros >= 1
    /\ rsaPc = "done"

\* The call recorded was given the signature sign_message returned.
Honest(v) == v # None /\ v.signature = signature

\* C4: a signature sign_message made over M with the private key of a pair
\* verifies against M with the public key of that pair, whatever salt it
\* was made with.
C4_RoundTrip ==
    (/\ Honest(lastVerify)
     /\ lastVerify.public_key.id = signed.key
     /\ lastVerify.message = signed.message) =>
        lastVerify.result = Return(TRUE)

C4_Witness ==
    /\ Honest(lastVerify)
    /\ lastVerify.public_key.id = signed.key
    /\ lastVerify.message = signed.message
    /\ lastVerify.message = << "a", "E9" >>
    /\ signature.salt = MaxSalt
    /\ lastVerify.result = Return(TRUE)

\* C5: a signature made over M with the key of pair A does not verify
\* against any other message, nor against the public key of another pair.
C5_RejectsOthers ==
    (/\ Honest(lastVerify)
     /\ \/ lastVerify.message # signed.message
        \/ lastVerify.public_key.id # signed.key) =>
        lastVerify.result = Return(FALSE)

C5_Witness ==
    /\ Honest(lastVerify)
    /\ lastVerify.public_key.id = signed.key
    /\ lastVerify.message = Tampered(signed.message)
    /\ lastVerify.result = Return(FALSE)

\* The other key is reached as well.
C5_WitnessCrossKey ==
    /\ Honest(lastVerify)
    /\ lastVerify.public_key.id # signed.key
    /\ lastVerify.message = signed.message
    /\ lastVerify.result = Return(FALSE)

\* C6: verify_signature never raises: it returns True when the library's
\* verification ended without an error and False, the same False, for every
\* error.
C6_NeverRaises ==
    lastVerify # None =>
        /\ lastVerify.result.kind = "return"
        /\ lastVerify.result.value \in BOOLEAN
        /\ (lastVerify.result.value <=> lastVerify.outcome = "ok")

C6_Witness ==
    /\ lastVerify # None
    /\ lastVerify.outcome = "TypeError"
    /\ lastVerify.result = Return(FALSE)

====
